---- MODULE Spec2Model ----
(***************************************************************************)
(* Checkers: the rule engine (CheckersLogic, src/checkers_logic.py) and    *)
(* the turn loop that drives it (CheckersUI.play / CheckersUI.move,        *)
(* src/checkers_ui.py).                                                    *)
(*                                                                         *)
(* The fields of the CheckersLogic object are the variables board,         *)
(* green_pieces, orange_pieces, eaten_pieces, current_player, winner and   *)
(* memo.  pc is the place of the user interface: "menu" (CheckersUI.menu   *)
(* waits for a key) or "play" (the loop of CheckersUI.play is running).    *)
(* turns counts the moves applied so far and only bounds the exploration.  *)
(***************************************************************************)
EXTENDS Integers, Sequences, FiniteSets, TLC

VARIABLES board, green_pieces, orange_pieces, eaten_pieces, current_player,
          winner, memo, pc, turns

vars == <<board, green_pieces, orange_pieces, eaten_pieces, current_player,
          winner, memo, pc, turns>>

(* Applied moves explored after a reset. *)
MaxTurns == 3

(***************************************************************************)
(* constants.py (imported by both source files, not among them).           *)
(***************************************************************************)
EMPTY == "Empty"
GREEN_PIECE == "GreenMan"
GREEN_QUEEN == "GreenKing"
ORANGE_PIECE == "OrangeMan"
ORANGE_QUEEN == "OrangeKing"
PLAYER_GREEN == "Green"
PLAYER_ORANGE == "Orange"
None == "None"

ENUM_NORMAL == [p \in {PLAYER_GREEN, PLAYER_ORANGE} |->
                  IF p = PLAYER_GREEN THEN GREEN_PIECE ELSE ORANGE_PIECE]

ENUM_PROMOTED == [p \in {PLAYER_GREEN, PLAYER_ORANGE} |->
                    IF p = PLAYER_GREEN THEN GREEN_QUEEN ELSE ORANGE_QUEEN]

OPOSITES == [p \in {PLAYER_GREEN, PLAYER_ORANGE} |->
               IF p = PLAYER_GREEN THEN {ORANGE_PIECE, ORANGE_QUEEN}
                                   ELSE {GREEN_PIECE, GREEN_QUEEN}]

(* The four texts validate_move returns with False. *)
MSG_SAME == "You have to move the piece"
MSG_FORWARD == "You have to move forward"
MSG_OCCUPIED == "You can not move there, there is already a piece"
MSG_NOT_ALLOWED == "That move is not allowed"

(***************************************************************************)
(* The board: range(8) rows of range(8) cells.                             *)
(***************************************************************************)
BoardLen == 8
Rows == 0 .. (BoardLen - 1)
Squares == Rows \X Rows

Abs(x) == IF x < 0 THEN -x ELSE x
Range(s) == {s[i] : i \in DOMAIN s}

(***************************************************************************)
(* CheckersLogic.  Every method is an operator on `self`, the record of    *)
(* the object's fields, and yields the record after the call (with the     *)
(* returned value beside it where the method returns one).                 *)
(***************************************************************************)

(* The layout init_game builds: range(col_begin, 8, 2) of rows 0-2 and 5-7. *)
starting_board ==
  [row_index \in Rows |-> [col_index \in Rows |->
     LET col_begin == IF row_index % 2 = 0 THEN 1 ELSE 0
         on == col_index >= col_begin /\ (col_index - col_begin) % 2 = 0
     IN  IF row_index < 3 /\ on THEN GREEN_PIECE
         ELSE IF row_index > 4 /\ on THEN ORANGE_PIECE
         ELSE EMPTY]]

(* init_game without its last two assignments (winner, memo). *)
init_game_keeps_winner(self) ==
  [self EXCEPT
   !.board = starting_board,
   !.green_pieces = 12,
   !.orange_pieces = 12,
   !.eaten_pieces = <<>>,
   !.current_player = PLAYER_GREEN]

(* init_game: the starting layout and the reset of every field. *)
init_game(self) ==
  [self EXCEPT
   !.board = starting_board,
   !.green_pieces = 12,
   !.orange_pieces = 12,
   !.eaten_pieces = <<>>,
   !.current_player = PLAYER_GREEN,
   !.winner = None,
   !.memo = {}]

change_player(self) ==
  [self EXCEPT !.current_player =
     IF self.current_player = PLAYER_ORANGE THEN PLAYER_GREEN ELSE PLAYER_ORANGE]

get_piece(self, row, col) == self.board[row][col]

(* check_valid_piece with `or` for `and`: no cell passes. *)
check_valid_piece_or(self, init_row, init_col) ==
  LET piece == get_piece(self, init_row, init_col)
  IN  IF piece # ENUM_NORMAL[self.current_player]
         \/ piece # ENUM_PROMOTED[self.current_player]
      THEN FALSE
      ELSE TRUE

check_valid_piece(self, init_row, init_col) ==
  LET piece == get_piece(self, init_row, init_col)
  IN  IF piece # ENUM_NORMAL[self.current_player]
         /\ piece # ENUM_PROMOTED[self.current_player]
      THEN FALSE
      ELSE TRUE

(* eat_pieces with the two counters exchanged. *)
eat_pieces_own(self) ==
  LET counter == Len(self.eaten_pieces)
      cleared == [row \in Rows |-> [col \in Rows |->
                    IF <<row, col>> \in Range(self.eaten_pieces)
                    THEN EMPTY ELSE self.board[row][col]]]
  IN  [self EXCEPT
         !.board = cleared,
         !.green_pieces = IF self.current_player = PLAYER_GREEN
                          THEN @ - counter ELSE @,
         !.orange_pieces = IF self.current_player = PLAYER_GREEN
                           THEN @ ELSE @ - counter,
         !.eaten_pieces = <<>>]

(* eat_pieces without its last line: the list is not emptied. *)
eat_pieces_keeps_list(self) ==
  LET counter == Len(self.eaten_pieces)
      cleared == [row \in Rows |-> [col \in Rows |->
                    IF <<row, col>> \in Range(self.eaten_pieces)
                    THEN EMPTY ELSE self.board[row][col]]]
  IN  [self EXCEPT
         !.board = cleared,
         !.orange_pieces = IF self.current_player = PLAYER_GREEN
                           THEN @ - counter ELSE @,
         !.green_pieces = IF self.current_player = PLAYER_GREEN
                          THEN @ ELSE @ - counter]

(* eat_pieces counting every captured square twice. *)
eat_pieces_double(self) ==
  LET counter == 2 * Len(self.eaten_pieces)
      cleared == [row \in Rows |-> [col \in Rows |->
                    IF <<row, col>> \in Range(self.eaten_pieces)
                    THEN EMPTY ELSE self.board[row][col]]]
  IN  [self EXCEPT
         !.board = cleared,
         !.orange_pieces = IF self.current_player = PLAYER_GREEN
                           THEN @ - counter ELSE @,
         !.green_pieces = IF self.current_player = PLAYER_GREEN
                          THEN @ ELSE @ - counter,
         !.eaten_pieces = <<>>]

eat_pieces(self) ==
  LET counter == Len(self.eaten_pieces)
      cleared == [row \in Rows |-> [col \in Rows |->
                    IF <<row, col>> \in Range(self.eaten_pieces)
                    THEN EMPTY ELSE self.board[row][col]]]
  IN  [self EXCEPT
         !.board = cleared,
         !.orange_pieces = IF self.current_player = PLAYER_GREEN
                           THEN @ - counter ELSE @,
         !.green_pieces = IF self.current_player = PLAYER_GREEN
                          THEN @ ELSE @ - counter,
         !.eaten_pieces = <<>>]

(* Promotion that tests len(self.board) instead of len(self.board)-1. *)
promote_off_by_one(self, end_row, end_col) ==
  LET s1 == IF self.current_player = PLAYER_GREEN /\ end_row = BoardLen
            THEN [self EXCEPT !.board[end_row][end_col] = GREEN_QUEEN]
            ELSE self
  IN  IF s1.current_player = PLAYER_ORANGE /\ end_row = 0
      THEN [s1 EXCEPT !.board[end_row][end_col] = ORANGE_QUEEN]
      ELSE s1

check_piece_promotion_and_promote(self, end_row, end_col) ==
  LET s1 == IF self.current_player = PLAYER_GREEN /\ end_row = BoardLen - 1
            THEN [self EXCEPT !.board[end_row][end_col] = GREEN_QUEEN]
            ELSE self
  IN  IF s1.current_player = PLAYER_ORANGE /\ end_row = 0
      THEN [s1 EXCEPT !.board[end_row][end_col] = ORANGE_QUEEN]
      ELSE s1

(* check_end naming the loser as the winner. *)
check_end_swapped(self) ==
  LET s1 == IF self.green_pieces = 0
            THEN [self EXCEPT !.winner = PLAYER_GREEN] ELSE self
  IN  IF s1.orange_pieces = 0
      THEN [s1 EXCEPT !.winner = PLAYER_ORANGE] ELSE s1

check_end(self) ==
  LET s1 == IF self.green_pieces = 0
            THEN [self EXCEPT !.winner = PLAYER_ORANGE] ELSE self
  IN  IF s1.orange_pieces = 0
      THEN [s1 EXCEPT !.winner = PLAYER_GREEN] ELSE s1

perform_move(self, init_row, init_col, end_row, end_col) ==
  LET s1 == [self EXCEPT !.board[end_row][end_col] = self.board[init_row][init_col]]
      s2 == IF init_row # end_row \/ init_col # end_col
            THEN [s1 EXCEPT !.board[init_row][init_col] = EMPTY] ELSE s1
      s3 == IF Len(s2.eaten_pieces) > 0 THEN eat_pieces(s2) ELSE s2
      s4 == check_piece_promotion_and_promote(s3, end_row, end_col)
  IN  check_end(s4)

(* check_basic_move answering what its docstring says: True when empty. *)
check_basic_move_empty(self, end_row, end_col) ==
  IF get_piece(self, end_row, end_col) = EMPTY THEN TRUE ELSE FALSE

(* True when the destination is NOT empty (the source's naming). *)
check_basic_move(self, end_row, end_col) ==
  IF get_piece(self, end_row, end_col) # EMPTY THEN TRUE ELSE FALSE

(* check_opposite taking any piece for an opponent's. *)
check_opposite_any(player, piece_two) ==
  IF piece_two # EMPTY THEN TRUE ELSE FALSE

check_opposite(player, piece_two) ==
  IF piece_two \in OPOSITES[player] THEN TRUE ELSE FALSE

(* Python's `a or b` on the values None / True / False, as strings. *)
PyOr(a, b) == IF a = "True" THEN a ELSE b

(***************************************************************************)
(* check_longer_move: depth-first search over jumps.  memo and             *)
(* eaten_pieces are fields of self, mutated along the way and threaded     *)
(* through the four branches in the source's order: top_right, top_left,   *)
(* bottom_right, bottom_left.  All four are always evaluated.              *)
(***************************************************************************)
RECURSIVE check_longer_move(_, _, _, _, _, _, _)
check_longer_move(self, piece, init_row, init_col, end_row, end_col, eaten) ==
  IF <<init_row, init_col>> \in self.memo
  THEN [ret |-> "None", self |-> self]
  ELSE
    LET s0 == [self EXCEPT !.memo = @ \cup {<<init_row, init_col>>}]
    IN  IF init_row = end_row /\ init_col = end_col
        THEN [ret |-> "True", self |-> [s0 EXCEPT !.eaten_pieces = eaten]]
        ELSE
          LET up == piece \in {GREEN_PIECE, GREEN_QUEEN, ORANGE_QUEEN}
                    /\ init_row <= BoardLen - 3
              down == piece \in {ORANGE_PIECE, GREEN_QUEEN, ORANGE_QUEEN}
                      /\ init_row >= 2
              top_right ==
                IF up /\ init_col >= 2
                   /\ check_opposite(s0.current_player,
                                     s0.board[init_row + 1][init_col - 1])
                THEN check_longer_move(s0, piece, init_row + 2, init_col - 2,
                        end_row, end_col,
                        Append(eaten, <<init_row + 1, init_col - 1>>))
                ELSE [ret |-> "False", self |-> s0]
              s1 == top_right.self
              top_left ==
                IF up /\ init_col <= BoardLen - 3
                   /\ check_opposite(s1.current_player,
                                     s1.board[init_row + 1][init_col + 1])
                THEN check_longer_move(s1, piece, init_row + 2, init_col + 2,
                        end_row, end_col,
                        Append(eaten, <<init_row + 1, init_col + 1>>))
                ELSE [ret |-> "False", self |-> s1]
              s2 == top_left.self
              bottom_right ==
                IF down /\ init_col <= BoardLen - 3
                   /\ check_opposite(s2.current_player,
                                     s2.board[init_row - 1][init_col + 1])
                THEN check_longer_move(s2, piece, init_row - 2, init_col + 2,
                        end_row, end_col,
                        Append(eaten, <<init_row - 1, init_col + 1>>))
                ELSE [ret |-> "False", self |-> s2]
              s3 == bottom_right.self
              bottom_left ==
                IF down /\ init_col >= 2
                   /\ check_opposite(s3.current_player,
                                     s3.board[init_row - 1][init_col - 1])
                THEN check_longer_move(s3, piece, init_row - 2, init_col - 2,
                        end_row, end_col,
                        Append(eaten, <<init_row - 1, init_col - 1>>))
                ELSE [ret |-> "False", self |-> s3]
          IN  [ret |-> PyOr(PyOr(PyOr(top_right.ret, top_left.ret),
                                 bottom_right.ret), bottom_left.ret),
               self |-> bottom_left.self]

(* check_wrong_direction with < and > for <= and >=: a sideways move passes. *)
check_wrong_direction_strict(self, init_row, init_col, end_row) ==
  LET difference == end_row - init_row
      piece == get_piece(self, init_row, init_col)
  IN  IF piece = GREEN_PIECE /\ difference < 0 THEN TRUE
      ELSE IF piece = ORANGE_PIECE /\ difference > 0 THEN TRUE
      ELSE FALSE

(* check_wrong_direction binding the kings to their side's direction too. *)
check_wrong_direction_kings(self, init_row, init_col, end_row) ==
  LET difference == end_row - init_row
      piece == get_piece(self, init_row, init_col)
  IN  IF piece \in {GREEN_PIECE, GREEN_QUEEN} /\ difference <= 0 THEN TRUE
      ELSE IF piece \in {ORANGE_PIECE, ORANGE_QUEEN} /\ difference >= 0 THEN TRUE
      ELSE FALSE

check_wrong_direction(self, init_row, init_col, end_row) ==
  LET difference == end_row - init_row
      piece == get_piece(self, init_row, init_col)
  IN  IF piece = GREEN_PIECE /\ difference <= 0 THEN TRUE
      ELSE IF piece = ORANGE_PIECE /\ difference >= 0 THEN TRUE
      ELSE FALSE

(* check_same_move with `or` for `and`. *)
check_same_move_or(init_row, init_col, end_row, end_col) ==
  IF init_row = end_row \/ init_col = end_col THEN TRUE ELSE FALSE

check_same_move(init_row, init_col, end_row, end_col) ==
  IF init_row = end_row /\ init_col = end_col THEN TRUE ELSE FALSE

(* validate_move without `self.memo = set([])` before the search. *)
validate_move_keeps_memo(self, init_row, init_col, end_row, end_col) ==
  IF check_same_move(init_row, init_col, end_row, end_col)
  THEN [valid |-> FALSE, reason |-> MSG_SAME, self |-> self]
  ELSE IF check_wrong_direction(self, init_row, init_col, end_row)
  THEN [valid |-> FALSE, reason |-> MSG_FORWARD, self |-> self]
  ELSE IF Abs(end_row - init_row) = 1 /\ Abs(init_col - end_col) = 1
  THEN IF check_basic_move(self, end_row, end_col)
       THEN [valid |-> FALSE, reason |-> MSG_OCCUPIED, self |-> self]
       ELSE [valid |-> TRUE, reason |-> "", self |-> self]
  ELSE
    LET r == check_longer_move(self,
                               get_piece(self, init_row, init_col),
                               init_row, init_col, end_row, end_col, <<>>)
    IN  IF r.ret # "True"
        THEN [valid |-> FALSE, reason |-> MSG_NOT_ALLOWED, self |-> r.self]
        ELSE [valid |-> TRUE, reason |-> "", self |-> r.self]

(* validate_move: the (bool, str) pair and the object after the call. *)
validate_move(self, init_row, init_col, end_row, end_col) ==
  IF check_same_move(init_row, init_col, end_row, end_col)
  THEN [valid |-> FALSE, reason |-> MSG_SAME, self |-> self]
  ELSE IF check_wrong_direction(self, init_row, init_col, end_row)
  THEN [valid |-> FALSE, reason |-> MSG_FORWARD, self |-> self]
  ELSE IF Abs(end_row - init_row) = 1 /\ Abs(init_col - end_col) = 1
  THEN IF check_basic_move(self, end_row, end_col)
       THEN [valid |-> FALSE, reason |-> MSG_OCCUPIED, self |-> self]
       ELSE [valid |-> TRUE, reason |-> "", self |-> self]
  ELSE
    LET r == check_longer_move([self EXCEPT !.memo = {}],
                               get_piece(self, init_row, init_col),
                               init_row, init_col, end_row, end_col, <<>>)
    IN  IF r.ret # "True"
        THEN [valid |-> FALSE, reason |-> MSG_NOT_ALLOWED, self |-> r.self]
        ELSE [valid |-> TRUE, reason |-> "", self |-> r.self]

(***************************************************************************)
(* The state machine.                                                      *)
(***************************************************************************)
Self == [board |-> board, green_pieces |-> green_pieces,
         orange_pieces |-> orange_pieces, eaten_pieces |-> eaten_pieces,
         current_player |-> current_player, winner |-> winner, memo |-> memo]

SetSelf(s) ==
  /\ board' = s.board
  /\ green_pieces' = s.green_pieces
  /\ orange_pieces' = s.orange_pieces
  /\ eaten_pieces' = s.eaten_pieces
  /\ current_player' = s.current_player
  /\ winner' = s.winner
  /\ memo' = s.memo

(* CheckersLogic.__init__ on a fresh object: init_game sets every field. *)
Blank == [board |-> [row \in Rows |-> [col \in Rows |-> EMPTY]],
          green_pieces |-> 0, orange_pieces |-> 0, eaten_pieces |-> <<>>,
          current_player |-> PLAYER_GREEN, winner |-> None, memo |-> {}]

IsSelf(s) ==
  /\ board = s.board
  /\ green_pieces = s.green_pieces
  /\ orange_pieces = s.orange_pieces
  /\ eaten_pieces = s.eaten_pieces
  /\ current_player = s.current_player
  /\ winner = s.winner
  /\ memo = s.memo

(* CheckersUI.__init__ built the game object; the menu is showing. *)
Init ==
  /\ IsSelf(init_game(Blank))
  /\ pc = "menu"
  /\ turns = 0

(* A loop of CheckersUI.play that never looks at the winner. *)
keep_playing_always(self) == TRUE

(* The condition of the loop of CheckersUI.play. *)
keep_playing(self) == self.winner = None

(* CheckersUI.move without its `if not self.game.winner`. *)
advance_player_always(self) == change_player(self)

(* The end of CheckersUI.move: the turn passes unless a winner is set. *)
advance_player(self) ==
  IF self.winner = None THEN change_player(self) ELSE self

(* CheckersUI.play, lines 156-158: key "p" in the menu starts a new game. *)
play ==
  /\ pc = "menu"
  /\ SetSelf([init_game(Self) EXCEPT !.current_player = PLAYER_GREEN])
  /\ pc' = "play"
  /\ UNCHANGED turns

(***************************************************************************)
(* One pass of the loop of CheckersUI.move: ask_for_piece (which loops     *)
(* until check_valid_piece holds), ask_for_move, validate_move.  A         *)
(* rejected pass leaves what validate_move left and asks again; a          *)
(* validated one goes on to perform_move and change_player, and the loop   *)
(* of CheckersUI.play then either continues or returns to the menu.        *)
(***************************************************************************)
move ==
  /\ pc = "play"
  /\ keep_playing(Self)
  /\ \E init_row \in Rows, init_col \in Rows :
       /\ check_valid_piece(Self, init_row, init_col)
       /\ \E end_row \in Rows, end_col \in Rows :
            \E v \in {validate_move(Self, init_row, init_col, end_row, end_col)} :
              IF v.valid
              THEN /\ turns < MaxTurns
                   /\ \E p \in {perform_move(v.self, init_row, init_col,
                                              end_row, end_col)} :
                        \E q \in {advance_player(p)} :
                          /\ SetSelf(q)
                          /\ pc' = IF keep_playing(q) THEN "play" ELSE "menu"
                   /\ turns' = turns + 1
              ELSE /\ SetSelf(v.self)
                   /\ UNCHANGED <<pc, turns>>

Next == play \/ move

Spec == Init /\ [][Next]_vars

(***************************************************************************)
(* Games in progress.  A game decided by captures, a promotion or a king's *)
(* chain of jumps lies dozens of moves after init_game, so a second        *)
(* and a third specification start inside recorded games.  Each record is  *)
(* what the two players typed at the prompts of ask_for_piece and          *)
(* ask_for_move from the start of CheckersUI.play on, one <<init_row,      *)
(* init_col, end_row, end_col>> per pass of the loop of CheckersUI.move;   *)
(* the state a game is picked up in is the one the program computes from   *)
(* them.  SpecMid starts in games a-d, SpecEnd in the endgames c-f.        *)
(*   game_a  Green to move, kings on both sides; the Orange king of (1,4)  *)
(*           is two plies from a diamond of four Green men                 *)
(*   game_b  the last Orange man against five Green men, one of them a     *)
(*           step from row 7                                               *)
(*   game_c  the last Green man, a jump from row 7, against five           *)
(*   game_d  the last Green man against three, one a jump from row 0       *)
(*   game_e  two Orange men side by side on row 6, Orange to move          *)
(*   game_f  two Green men, one of them on (6,7) under the Orange man of   *)
(*           (7,6), against five                                           *)
(***************************************************************************)
game_a ==
  << <<2, 3, 3, 2>>, <<5, 4, 4, 5>>, <<3, 2, 4, 3>>, <<5, 2, 4, 1>>,
     <<4, 3, 5, 2>>, <<6, 3, 5, 4>>, <<2, 7, 3, 6>>, <<4, 5, 2, 7>>,
     <<1, 4, 2, 3>>, <<5, 4, 4, 5>>, <<2, 1, 3, 2>>, <<6, 1, 2, 1>>,
     <<1, 2, 5, 2>>, <<5, 0, 4, 1>>, <<0, 3, 1, 2>>, <<4, 1, 3, 0>>,
     <<2, 5, 3, 6>>, <<7, 4, 6, 3>>, <<5, 2, 7, 4>>, <<5, 6, 4, 7>>,
     <<7, 4, 3, 4>>, <<4, 7, 2, 5>>, <<1, 0, 2, 1>>, <<6, 7, 5, 6>>,
     <<2, 3, 3, 2>>, <<2, 5, 1, 4>>, <<0, 5, 2, 3>>, <<5, 6, 4, 5>>,
     <<3, 4, 5, 6>>, <<2, 7, 0, 5>>, <<0, 1, 1, 0>>, <<7, 6, 6, 5>>,
     <<5, 6, 7, 4>>, <<7, 0, 6, 1>>, <<2, 3, 3, 4>>, <<0, 5, 1, 4>>,
     <<1, 2, 2, 3>>, <<6, 1, 5, 0>>, <<7, 4, 6, 5>>, <<1, 4, 0, 5>>,
     <<0, 7, 1, 6>>, <<3, 0, 1, 2>>, <<6, 5, 5, 6>>, <<1, 2, 0, 1>>,
     <<3, 2, 4, 3>>, <<7, 2, 6, 1>>, <<1, 6, 2, 5>>, <<0, 5, 1, 4>> >>

game_b ==
  << <<2, 1, 3, 0>>, <<5, 4, 4, 5>>, <<2, 3, 3, 4>>, <<5, 2, 4, 3>>,
     <<1, 4, 2, 3>>, <<6, 1, 5, 2>>, <<2, 3, 3, 2>>, <<4, 5, 3, 6>>,
     <<1, 2, 2, 1>>, <<5, 0, 4, 1>>, <<3, 2, 5, 4>>, <<6, 3, 2, 3>>,
     <<2, 5, 4, 7>>, <<2, 3, 1, 2>>, <<0, 1, 2, 3>>, <<5, 2, 4, 3>>,
     <<3, 0, 5, 2>>, <<7, 0, 6, 1>>, <<5, 2, 7, 0>>, <<7, 2, 6, 1>>,
     <<7, 0, 3, 4>>, <<6, 5, 5, 4>>, <<4, 7, 6, 5>>, <<7, 4, 5, 6>>,
     <<3, 4, 4, 5>>, <<5, 6, 1, 2>>, <<2, 7, 3, 6>>, <<5, 4, 4, 3>>,
     <<3, 6, 4, 7>>, <<1, 2, 0, 1>>, <<0, 5, 1, 4>>, <<0, 1, 1, 2>>,
     <<2, 1, 3, 2>>, <<4, 3, 2, 1>>, <<1, 0, 3, 2>>, <<1, 2, 2, 1>>,
     <<1, 6, 2, 7>>, <<2, 1, 4, 3>>, <<1, 4, 2, 3>>, <<4, 3, 3, 4>>,
     <<2, 3, 4, 5>>, <<6, 7, 5, 6>>, <<4, 7, 6, 5>> >>

game_c ==
  << <<2, 7, 3, 6>>, <<5, 6, 4, 5>>, <<2, 3, 3, 4>>, <<4, 5, 2, 3>>,
     <<3, 6, 4, 5>>, <<5, 4, 3, 6>>, <<2, 5, 4, 7>>, <<6, 3, 5, 4>>,
     <<1, 4, 3, 2>>, <<7, 2, 6, 3>>, <<2, 1, 3, 0>>, <<6, 7, 5, 6>>,
     <<1, 2, 2, 3>>, <<5, 4, 4, 5>>, <<2, 3, 3, 4>>, <<5, 2, 4, 1>>,
     <<0, 3, 1, 4>>, <<4, 5, 2, 3>>, <<3, 0, 5, 2>>, <<6, 1, 2, 1>>,
     <<1, 0, 3, 2>>, <<6, 5, 5, 4>>, <<3, 2, 4, 1>>, <<5, 0, 3, 2>>,
     <<1, 6, 2, 7>>, <<5, 4, 4, 5>>, <<4, 7, 6, 5>>, <<2, 3, 1, 2>>,
     <<0, 1, 4, 1>>, <<7, 6, 5, 4>>, <<2, 7, 3, 6>>, <<4, 5, 2, 7>>,
     <<0, 7, 1, 6>>, <<5, 4, 4, 5>>, <<1, 4, 2, 5>>, <<7, 0, 6, 1>>,
     <<0, 5, 1, 4>>, <<2, 7, 0, 5>>, <<4, 1, 5, 2>>, <<6, 1, 4, 3>>,
     <<2, 5, 3, 4>>, <<4, 3, 2, 5>> >>

game_d ==
  << <<2, 5, 3, 4>>, <<5, 4, 4, 5>>, <<2, 7, 3, 6>>, <<5, 0, 4, 1>>,
     <<3, 6, 4, 7>>, <<4, 1, 3, 0>>, <<2, 3, 3, 2>>, <<6, 1, 5, 0>>,
     <<3, 2, 4, 3>>, <<4, 5, 2, 3>>, <<1, 6, 2, 7>>, <<7, 2, 6, 1>>,
     <<1, 4, 3, 2>>, <<5, 2, 3, 4>>, <<3, 2, 4, 3>>, <<3, 4, 2, 3>>,
     <<1, 2, 3, 4>>, <<3, 0, 1, 2>>, <<0, 1, 2, 3>>, <<6, 5, 5, 4>>,
     <<0, 3, 1, 2>>, <<7, 6, 6, 5>>, <<0, 5, 1, 4>>, <<5, 4, 3, 2>>,
     <<2, 7, 3, 6>>, <<6, 5, 5, 4>>, <<2, 3, 4, 1>>, <<5, 0, 3, 2>>,
     <<4, 7, 6, 5>>, <<7, 4, 5, 6>>, <<1, 4, 2, 5>>, <<5, 4, 4, 5>>,
     <<3, 6, 7, 2>>, <<5, 6, 4, 5>>, <<3, 4, 5, 6>>, <<3, 2, 2, 1>>,
     <<1, 2, 3, 0>>, <<6, 1, 5, 2>>, <<3, 0, 4, 1>>, <<5, 2, 3, 0>>,
     <<2, 5, 3, 6>>, <<6, 7, 2, 7>>, <<7, 2, 6, 1>>, <<7, 0, 5, 2>>,
     <<1, 0, 2, 1>>, <<3, 0, 1, 2>> >>

game_e ==
  << <<2, 5, 3, 4>>, <<5, 4, 4, 5>>, <<2, 7, 3, 6>>, <<5, 2, 4, 3>>,
     <<3, 4, 5, 2>>, <<4, 5, 2, 7>>, <<2, 3, 3, 2>>, <<6, 3, 2, 3>>,
     <<1, 4, 3, 2>>, <<7, 4, 6, 3>>, <<0, 3, 1, 4>>, <<6, 3, 5, 4>>,
     <<1, 4, 2, 5>>, <<6, 1, 5, 2>>, <<3, 2, 4, 3>>, <<5, 2, 3, 4>>,
     <<2, 5, 4, 3>>, <<5, 4, 3, 2>>, <<2, 1, 4, 3>>, <<5, 6, 4, 5>>,
     <<1, 6, 2, 5>>, <<7, 2, 6, 1>>, <<2, 5, 3, 4>>, <<4, 5, 2, 3>>,
     <<1, 2, 3, 4>>, <<6, 1, 5, 2>>, <<0, 5, 1, 6>>, <<5, 0, 4, 1>>,
     <<4, 3, 6, 1>>, <<6, 5, 5, 6>>, <<6, 1, 7, 2>>, <<2, 7, 0, 5>>,
     <<7, 2, 6, 3>>, <<4, 1, 3, 0>>, <<6, 3, 5, 4>>, <<0, 5, 1, 4>>,
     <<1, 0, 2, 1>>, <<3, 0, 1, 2>>, <<3, 4, 4, 3>>, <<7, 0, 6, 1>>,
     <<0, 1, 2, 3>>, <<1, 4, 3, 2>>, <<4, 3, 5, 2>>, <<6, 1, 4, 3>>,
     <<0, 7, 1, 6>>, <<3, 2, 4, 1>>, <<5, 4, 5, 0>>, <<5, 6, 4, 5>>,
     <<1, 6, 2, 7>>, <<7, 6, 6, 5>>, <<5, 0, 6, 1>>, <<4, 5, 3, 6>>,
     <<2, 7, 4, 5>> >>

game_f ==
  << <<2, 5, 3, 4>>, <<5, 2, 4, 3>>, <<3, 4, 5, 2>>, <<6, 3, 4, 1>>,
     <<1, 6, 2, 5>>, <<6, 1, 5, 2>>, <<2, 5, 3, 6>>, <<5, 2, 4, 3>>,
     <<0, 5, 1, 6>>, <<5, 6, 4, 5>>, <<2, 1, 3, 2>>, <<4, 5, 3, 4>>,
     <<2, 3, 6, 3>>, <<4, 1, 0, 5>>, <<3, 6, 4, 5>>, <<7, 2, 5, 4>>,
     <<1, 2, 2, 3>>, <<5, 0, 4, 1>>, <<4, 5, 5, 6>>, <<6, 7, 4, 5>>,
     <<2, 7, 3, 6>>, <<4, 5, 2, 7>>, <<1, 0, 2, 1>>, <<4, 3, 3, 4>>,
     <<2, 3, 6, 3>>, <<0, 5, 1, 4>>, <<0, 3, 2, 5>>, <<6, 5, 5, 6>>,
     <<2, 1, 3, 2>>, <<7, 4, 5, 2>>, <<0, 1, 1, 2>>, <<4, 1, 0, 1>>,
     <<2, 5, 3, 6>>, <<2, 7, 0, 5>>, <<3, 6, 4, 5>>, <<5, 2, 4, 3>>,
     <<4, 5, 6, 7>>, <<4, 3, 3, 4>>, <<0, 7, 1, 6>>, <<0, 5, 1, 4>> >>

RecordedGames == {game_a, game_b, game_c, game_d}

RecordedEndgames == {game_c, game_d, game_e, game_f}

(***************************************************************************)
(* CheckersUI.play fed with the answers of `answers`: init_game, Green to  *)
(* move, then one pass of the loop of CheckersUI.move per answer while     *)
(* there is no winner.  A square that fails check_valid_piece is asked     *)
(* again, a rejected move leaves what validate_move left, a validated one  *)
(* is performed and the turn advanced.                                     *)
(***************************************************************************)
RECURSIVE Replay(_, _)
Replay(self, answers) ==
  IF answers = <<>> \/ ~ keep_playing(self) THEN self
  ELSE LET a == Head(answers)
       IN  IF ~ check_valid_piece(self, a[1], a[2])
           THEN Replay(self, Tail(answers))
           ELSE LET v == validate_move(self, a[1], a[2], a[3], a[4])
                IN  IF v.valid
                    THEN Replay(advance_player(
                                  perform_move(v.self, a[1], a[2], a[3], a[4])),
                                Tail(answers))
                    ELSE Replay(v.self, Tail(answers))

InitMid ==
  /\ \E answers \in RecordedGames :
       IsSelf(Replay([init_game(Blank) EXCEPT !.current_player = PLAYER_GREEN],
                     answers))
  /\ pc = "play"
  /\ turns = 0

SpecMid == InitMid /\ [][Next]_vars

InitEnd ==
  /\ \E answers \in RecordedEndgames :
       IsSelf(Replay([init_game(Blank) EXCEPT !.current_player = PLAYER_GREEN],
                     answers))
  /\ pc = "play"
  /\ turns = 0

SpecEnd == InitEnd /\ [][Next]_vars

(***************************************************************************)
(* Vocabulary of the properties.                                           *)
(***************************************************************************)
GreenCells == {GREEN_PIECE, GREEN_QUEEN}
OrangeCells == {ORANGE_PIECE, ORANGE_QUEEN}
Cell(b, sq) == b[sq[1]][sq[2]]
OnBoard(b, cells) == Cardinality({sq \in Squares : Cell(b, sq) \in cells})
OwnCells(player) == {ENUM_NORMAL[player], ENUM_PROMOTED[player]}
Other(player) == IF player = PLAYER_GREEN THEN PLAYER_ORANGE ELSE PLAYER_GREEN
OneStep(s, t) == Abs(t[1] - s[1]) = 1 /\ Abs(t[2] - s[2]) = 1
Validate(s, t) == validate_move(Self, s[1], s[2], t[1], t[2])

(* The landing squares of a chain of jumps that starts on `from` and jumps
   over the squares of `eaten` in turn: each landing square mirrors the
   square before it in the jumped one. *)
RECURSIVE Landings(_, _)
Landings(from, eaten) ==
  IF eaten = <<>> THEN {}
  ELSE LET land == <<2 * eaten[1][1] - from[1], 2 * eaten[1][2] - from[2]>>
       IN  {land} \cup Landings(land, Tail(eaten))

(* The step is a move applied from s: the cell held a piece of the player
   to move and is empty now. *)
AppliedFrom(s) ==
  /\ turns' = turns + 1
  /\ check_valid_piece(Self, s[1], s[2])
  /\ Cell(board', s) = EMPTY

(* The step is the move from s to t, validated and applied. *)
Applied(s, t) ==
  /\ AppliedFrom(s)
  /\ Validate(s, t).valid
  /\ board' = perform_move(Validate(s, t).self, s[1], s[2], t[1], t[2]).board

(***************************************************************************)
(* C1.  After every completed move green_pieces is the number of cells     *)
(* that hold a Green man or king, and orange_pieces the number that hold   *)
(* an Orange man or king.                                                  *)
(* Fails: a jump may land on an occupied square (C2), and the piece        *)
(* standing there disappears without being counted.                        *)
(***************************************************************************)
C1_CountsMatchBoard ==
  /\ green_pieces = OnBoard(board, GreenCells)
  /\ orange_pieces = OnBoard(board, OrangeCells)

(***************************************************************************)
(* C2.  Whenever validate_move accepts a move of more than one step,       *)
(* every landing square of the accepted chain of jumps, the destination    *)
(* included, is Empty at validation time.                                  *)
(* Fails: check_longer_move tests the jumped square only.                  *)
(***************************************************************************)
C2_JumpsLandOnEmpty ==
  (pc = "play" /\ keep_playing(Self)) =>
    \A s \in Squares :
      check_valid_piece(Self, s[1], s[2]) =>
        \A t \in Squares :
          (~ OneStep(s, t) /\ Validate(s, t).valid) =>
            \A sq \in Landings(s, Validate(s, t).self.eaten_pieces) \cup {t} :
              Cell(board, sq) = EMPTY

(***************************************************************************)
(* C3.  For a start square holding a piece of the current player and a     *)
(* target that is not the start, not a single diagonal step and not in the *)
(* wrong direction, validate_move answers valid exactly when some chain of *)
(* one or more jumps leads from the start to the target, and otherwise     *)
(* rejects with "That move is not allowed".  A jump goes in a direction    *)
(* the piece may take (row+2 for a Green man, row-2 for an Orange man, all *)
(* four for a king), passes over an opponent piece and lands on the board. *)
(* The chains are computed here as a closure, without the search.          *)
(***************************************************************************)
RowSteps(piece) ==
  IF piece = GREEN_PIECE THEN {1}
  ELSE IF piece = ORANGE_PIECE THEN {-1}
  ELSE {1, -1}

Opponent(piece) == IF piece \in GreenCells THEN OrangeCells ELSE GreenCells

Jumps(piece, sq) ==
  {<<sq[1] + 2 * dr, sq[2] + 2 * dc>> : <<dr, dc>> \in
     {d \in RowSteps(piece) \X {1, -1} :
        /\ <<sq[1] + 2 * d[1], sq[2] + 2 * d[2]>> \in Squares
        /\ Cell(board, <<sq[1] + d[1], sq[2] + d[2]>>) \in Opponent(piece)}}

RECURSIVE JumpClosure(_, _, _)
JumpClosure(piece, frontier, seen) ==
  IF frontier = {} THEN seen
  ELSE LET next == UNION {Jumps(piece, sq) : sq \in frontier} \ seen
       IN  JumpClosure(piece, next, seen \cup next)

(* The squares some chain of one or more jumps reaches from sq. *)
JumpReach(piece, sq) == JumpClosure(piece, Jumps(piece, sq), Jumps(piece, sq))

C3_ValidIffJumpChain ==
  \A s \in Squares :
    check_valid_piece(Self, s[1], s[2]) =>
      \A reach \in {JumpReach(Cell(board, s), s)} :
        \A t \in Squares :
          (t # s /\ ~ OneStep(s, t)
             /\ ~ check_wrong_direction(Self, s[1], s[2], t[1])) =>
            \A v \in {Validate(s, t)} :
              /\ v.valid <=> t \in reach
              /\ ~ v.valid => v.reason = MSG_NOT_ALLOWED

(* The Orange king of game_a, its diamond closed by Green's (3,4) to (4,5),
   went from (1,4) to (3,6) by the chain of three jumps the search finds
   first, over (2,3), (4,3) and (4,5); one jump over (2,5) leads there too.
   The search visited all four corners. *)
C3_Witness ==
  /\ turns = 2
  /\ memo = {<<1, 4>>, <<3, 2>>, <<5, 4>>, <<3, 6>>}
  /\ Cell(board, <<1, 4>>) = EMPTY
  /\ Cell(board, <<3, 6>>) = ORANGE_QUEEN
  /\ Cell(board, <<2, 5>>) = GREEN_PIECE
  /\ green_pieces = 3
  /\ OnBoard(board, GreenCells) = 3

(***************************************************************************)
(* C4.  When a validated capture is applied, the squares of the pending    *)
(* capture set found by its validation become Empty and no other square    *)
(* but the start and the destination changes, the opponent's counter drops *)
(* by the number of those squares, the mover's counter is unchanged and    *)
(* the pending capture set is empty afterwards; a single jump takes one    *)
(* square and one off the counter.                                         *)
(***************************************************************************)
CountOf(player) == IF player = PLAYER_GREEN THEN green_pieces ELSE orange_pieces
CountAfter(player) == IF player = PLAYER_GREEN THEN green_pieces' ELSE orange_pieces'

C4_CaptureApplied ==
  [][turns' = turns + 1 =>
      \A s \in Squares : AppliedFrom(s) => \A t \in Squares :
        Applied(s, t) =>
          \A eaten \in {Validate(s, t).self.eaten_pieces} :
            eaten # <<>> =>
              /\ \A sq \in Range(eaten) :
                    /\ sq \notin {s, t}
                    /\ Cell(board, sq) \in OPOSITES[current_player]
                    /\ Cell(board', sq) = EMPTY
              /\ \A sq \in Squares \ (Range(eaten) \cup {s, t}) :
                    Cell(board', sq) = Cell(board, sq)
              /\ Cardinality(Range(eaten)) = Len(eaten)
              /\ CountAfter(Other(current_player)) =
                    CountOf(Other(current_player)) - Len(eaten)
              /\ CountAfter(current_player) = CountOf(current_player)
              /\ eaten_pieces' = <<>>
              /\ (Abs(t[1] - s[1]) = 2 /\ Len(eaten) = 1) =>
                    eaten[1] = <<(s[1] + t[1]) \div 2, (s[2] + t[2]) \div 2>>
  ]_vars

(* The Orange man of game_b jumped from (7,6) over the man on (6,5) to
   (5,4). *)
C4_Witness ==
  /\ turns = 1
  /\ Cell(board, <<7, 6>>) = EMPTY
  /\ Cell(board, <<6, 5>>) = EMPTY
  /\ Cell(board, <<5, 4>>) = ORANGE_PIECE
  /\ Cell(board, <<4, 5>>) = GREEN_PIECE
  /\ orange_pieces = 1
  /\ green_pieces = 4
  /\ eaten_pieces = <<>>

(***************************************************************************)
(* C5.  Between moves the winner is Orange exactly when green_pieces is 0, *)
(* Green exactly when orange_pieces is 0, and unset exactly when both      *)
(* counters are positive: the step that brings a counter to 0 sets it.     *)
(***************************************************************************)
C5_WinnerIffCountZero ==
  /\ winner = PLAYER_ORANGE <=> green_pieces = 0
  /\ winner = PLAYER_GREEN <=> orange_pieces = 0
  /\ winner = None <=> (green_pieces > 0 /\ orange_pieces > 0)

(* Orange took the last Green piece. *)
C5_Witness ==
  /\ winner = PLAYER_ORANGE
  /\ green_pieces = 0
  /\ OnBoard(board, GreenCells) = 0
  /\ turns > 0

(***************************************************************************)
(* C6.  Once winner is set no move is validated or applied: the board,     *)
(* both counters, the current player and the winner stay as they are until *)
(* init_game resets the game.                                              *)
(***************************************************************************)
FreshGame ==
  /\ board = starting_board
  /\ green_pieces = 12
  /\ orange_pieces = 12
  /\ current_player = PLAYER_GREEN
  /\ winner = None

C6_NoMoveAfterWinner ==
  [][winner # None =>
       \/ UNCHANGED <<board, green_pieces, orange_pieces, current_player,
                      winner, eaten_pieces, memo, turns>>
       \/ FreshGame']_vars

(* A decided game whose winner still has a piece that could be moved. *)
C6_Witness ==
  /\ winner = PLAYER_GREEN
  /\ pc = "menu"
  /\ turns < MaxTurns
  /\ \E s \in Squares, t \in Squares :
        check_valid_piece(Self, s[1], s[2]) /\ Validate(s, t).valid

(***************************************************************************)
(* C7.  A new game starts with Green.  An applied move that sets no winner *)
(* passes the turn to the other side, a rejected validation leaves the     *)
(* current player alone, and the move that sets a winner does not pass the *)
(* turn: applied moves alternate Green, Orange, Green, ... until the game  *)
(* is over.                                                                *)
(***************************************************************************)
C7_TurnsAlternate ==
  [][/\ (pc = "menu" /\ pc' = "play") => current_player' = PLAYER_GREEN
     /\ (turns' = turns + 1 /\ winner' = None) =>
           current_player' = Other(current_player)
     /\ (turns' = turns + 1 /\ winner' # None) =>
           current_player' = current_player
     /\ (pc = "play" /\ turns' = turns) => current_player' = current_player
  ]_vars

(* Orange moved, Green answered with the winning capture and is still the
   current player. *)
C7_Witness ==
  /\ turns = 2
  /\ winner = PLAYER_GREEN
  /\ current_player = PLAYER_GREEN

(***************************************************************************)
(* C8.  A man that ends an applied move on its far row (7 for Green, 0 for *)
(* Orange) is a king of its colour when the step ends, a king that is      *)
(* moved is the same king on its destination, and between moves row 7      *)
(* holds no Green man and row 0 no Orange man.                             *)
(***************************************************************************)
NoManOnFarRow ==
  \A col \in Rows :
    /\ board[BoardLen - 1][col] # GREEN_PIECE
    /\ board[0][col] # ORANGE_PIECE

C8_Promotion ==
  /\ []NoManOnFarRow
  /\ [][turns' = turns + 1 =>
          \A s \in Squares : AppliedFrom(s) => \A t \in Squares :
            Applied(s, t) =>
              /\ (Cell(board, s) = GREEN_PIECE /\ t[1] = BoardLen - 1) =>
                    Cell(board', t) = GREEN_QUEEN
              /\ (Cell(board, s) = ORANGE_PIECE /\ t[1] = 0) =>
                    Cell(board', t) = ORANGE_QUEEN
              /\ Cell(board, s) \in {GREEN_QUEEN, ORANGE_QUEEN} =>
                    Cell(board', t) = Cell(board, s)
     ]_vars

(* The Green man of (6,5) in game_b stepped to (7,4) and is a king there. *)
C8_Witness ==
  /\ turns = 2
  /\ Cell(board, <<6, 5>>) = EMPTY
  /\ Cell(board, <<7, 4>>) = GREEN_QUEEN
  /\ green_pieces = 5
  /\ orange_pieces = 1

(***************************************************************************)
(* C9.  init_game, called in any reachable state, yields one fixed state:  *)
(* Green men on the 12 squares of rows 0-2 with row+column odd, Orange men *)
(* on the 12 squares of rows 5-7 with row+column odd, every other square   *)
(* Empty, both counters 12, no winner, Green to move, and empty pending    *)
(* capture and visited sets.  The new game CheckersUI.play starts is that  *)
(* state.                                                                  *)
(***************************************************************************)
C9_Start ==
  [board |-> [row \in Rows |-> [col \in Rows |->
                IF (row + col) % 2 = 1 /\ row \in 0 .. 2 THEN GREEN_PIECE
                ELSE IF (row + col) % 2 = 1 /\ row \in 5 .. 7 THEN ORANGE_PIECE
                ELSE EMPTY]],
   green_pieces |-> 12,
   orange_pieces |-> 12,
   eaten_pieces |-> <<>>,
   current_player |-> PLAYER_GREEN,
   winner |-> None,
   memo |-> {}]

C9_InitGameResets ==
  /\ [](/\ init_game(Self) = C9_Start
         /\ OnBoard(init_game(Self).board, {GREEN_PIECE}) = 12
         /\ OnBoard(init_game(Self).board, {ORANGE_PIECE}) = 12)
  /\ [][(pc = "menu" /\ pc' = "play") => IsSelf(C9_Start)']_vars

(* A new game started after a decided one, whose search had left squares
   in the visited set. *)
C9_Witness ==
  /\ IsSelf(C9_Start)
  /\ pc = "play"
  /\ turns > 0

(***************************************************************************)
(* C10.  A single diagonal step that is neither a null move nor in the     *)
(* wrong direction is valid exactly when its destination is Empty, and is  *)
(* otherwise rejected as occupied; accepted, it leaves the pending capture *)
(* set empty, and applying it empties the start cell, puts the piece       *)
(* (promoted on its far row) on the destination, changes no other cell and *)
(* no counter, and passes the turn.                                        *)
(***************************************************************************)
Promoted(piece, row) ==
  IF piece = GREEN_PIECE /\ row = BoardLen - 1 THEN GREEN_QUEEN
  ELSE IF piece = ORANGE_PIECE /\ row = 0 THEN ORANGE_QUEEN
  ELSE piece

C10_StepValidated ==
  \A s \in Squares :
    check_valid_piece(Self, s[1], s[2]) =>
      \A t \in Squares :
        (OneStep(s, t) /\ ~ check_wrong_direction(Self, s[1], s[2], t[1])) =>
          \A v \in {Validate(s, t)} :
            /\ v.valid <=> Cell(board, t) = EMPTY
            /\ ~ v.valid => v.reason = MSG_OCCUPIED
            /\ v.valid => (v.reason = "" /\ v.self.eaten_pieces = <<>>)

C10_SingleStep ==
  /\ []C10_StepValidated
  /\ [][turns' = turns + 1 =>
          \A s \in Squares : AppliedFrom(s) => \A t \in Squares :
            (OneStep(s, t) /\ Applied(s, t)) =>
              /\ Cell(board, t) = EMPTY
              /\ Cell(board', s) = EMPTY
              /\ Cell(board', t) = Promoted(Cell(board, s), t[1])
              /\ \A sq \in Squares \ {s, t} : Cell(board', sq) = Cell(board, sq)
              /\ green_pieces' = green_pieces
              /\ orange_pieces' = orange_pieces
              /\ winner' = None
              /\ current_player' = Other(current_player)
     ]_vars

(* Green's (2,1) to (3,0) on the starting board. *)
C10_Witness ==
  /\ board = [starting_board EXCEPT ![2][1] = EMPTY, ![3][0] = GREEN_PIECE]
  /\ current_player = PLAYER_ORANGE
  /\ green_pieces = 12
  /\ orange_pieces = 12
  /\ eaten_pieces = <<>>

(***************************************************************************)
(* C11.  A man never moves backward or sideways.  Every move (to another   *)
(* square) of a Green man whose end row is not greater than its start row, *)
(* and of an Orange man whose end row is not smaller, is rejected with     *)
(* "You have to move forward", at any distance and whatever the            *)
(* destination holds; and every applied move of a man ends on a row        *)
(* strictly ahead of its start row.                                        *)
(***************************************************************************)
Behind(piece, s, t) ==
  \/ piece = GREEN_PIECE /\ t[1] <= s[1]
  \/ piece = ORANGE_PIECE /\ t[1] >= s[1]

C11_BackwardRejected ==
  \A s \in Squares :
    check_valid_piece(Self, s[1], s[2]) =>
      \A t \in Squares \ {s} :
        Behind(Cell(board, s), s, t) =>
          \A v \in {Validate(s, t)} :
            ~ v.valid /\ v.reason = MSG_FORWARD

C11_MenMoveForward ==
  /\ []C11_BackwardRejected
  /\ [][turns' = turns + 1 =>
          \A s \in Squares : AppliedFrom(s) => \A t \in Squares :
            Applied(s, t) =>
              /\ Cell(board, s) = GREEN_PIECE => t[1] > s[1]
              /\ Cell(board, s) = ORANGE_PIECE => t[1] < s[1]
     ]_vars

(* A man of each side has moved, and the man to move now has an Empty
   square one step behind it and an opponent's piece one step behind it
   with room to land beyond. *)
C11_Witness ==
  /\ turns >= 2
  /\ \E s \in Squares, t \in Squares, u \in Squares :
        /\ check_valid_piece(Self, s[1], s[2])
        /\ Cell(board, s) \in {GREEN_PIECE, ORANGE_PIECE}
        /\ OneStep(s, t) /\ Behind(Cell(board, s), s, t)
        /\ Cell(board, t) = EMPTY
        /\ OneStep(s, u) /\ Behind(Cell(board, s), s, u)
        /\ Cell(board, u) \in OPOSITES[current_player]
        /\ <<2 * u[1] - s[1], 2 * u[2] - s[2]>> \in Squares

(***************************************************************************)
(* C12.  As claimed: kings are subject to the single-step wrong-direction  *)
(* check like men, so a one-square move of a Green king to a lower row, or *)
(* of an Orange king to a higher row, is rejected with "You have to move   *)
(* forward" even when the destination is Empty.                            *)
(* Fails: check_wrong_direction tests GREEN_PIECE and ORANGE_PIECE only.   *)
(***************************************************************************)
KingBack(piece, s, t) ==
  /\ OneStep(s, t)
  /\ \/ piece = GREEN_QUEEN /\ t[1] < s[1]
     \/ piece = ORANGE_QUEEN /\ t[1] > s[1]

C12_KingsCheckedLikeMen ==
  \A s \in Squares :
    check_valid_piece(Self, s[1], s[2]) =>
      \A t \in Squares :
        KingBack(Cell(board, s), s, t) =>
          \A v \in {Validate(s, t)} :
            ~ v.valid /\ v.reason = MSG_FORWARD

(***************************************************************************)
(* C12, amended.  Kings are exempt from the wrong-direction check that     *)
(* binds men: a one-square move of a Green king to a lower row, or of an   *)
(* Orange king to a higher row, is never rejected with "You have to move   *)
(* forward"; it is valid when the destination is Empty and rejected as     *)
(* occupied when it is not, and applied it puts the king on the            *)
(* destination.                                                            *)
(***************************************************************************)
C12_KingBackValidated ==
  \A s \in Squares :
    check_valid_piece(Self, s[1], s[2]) =>
      /\ Cell(board, s) \in {GREEN_QUEEN, ORANGE_QUEEN} =>
            \A row \in Rows : ~ check_wrong_direction(Self, s[1], s[2], row)
      /\ \A t \in Squares :
            KingBack(Cell(board, s), s, t) =>
              \A v \in {Validate(s, t)} :
                /\ v.reason # MSG_FORWARD
                /\ v.valid <=> Cell(board, t) = EMPTY
                /\ ~ v.valid => v.reason = MSG_OCCUPIED

C12_KingsStepBack ==
  /\ []C12_KingBackValidated
  /\ [][turns' = turns + 1 =>
          \A s \in Squares : AppliedFrom(s) => \A t \in Squares :
            (KingBack(Cell(board, s), s, t) /\ Applied(s, t)) =>
              /\ Cell(board', t) = Cell(board, s)
              /\ Cell(board', s) = EMPTY
     ]_vars

(* The Green king of (5,6) in game_a stepped back to (4,7). *)
C12_Witness ==
  /\ turns = 1
  /\ Cell(board, <<5, 6>>) = EMPTY
  /\ Cell(board, <<4, 7>>) = GREEN_QUEEN
  /\ green_pieces = 6
  /\ orange_pieces = 4
  /\ current_player = PLAYER_ORANGE

(***************************************************************************)
(* C13.  In every reachable state and for all coordinates 0..7,            *)
(* validate_move returns a (valid, reason) pair: reason is empty exactly   *)
(* when valid, a rejection carries one of the four reasons, start = end is *)
(* rejected with "You have to move the piece" before any other test (and   *)
(* nothing else is), and a rejected validation leaves the board, both      *)
(* counters, the current player, the winner and the pending capture set    *)
(* as they were.  The start square ranges over all 64 cells, whatever they *)
(* hold.                                                                   *)
(***************************************************************************)
Reasons == {MSG_SAME, MSG_FORWARD, MSG_OCCUPIED, MSG_NOT_ALLOWED}

C13_ValidateTotal ==
  \A s \in Squares, t \in Squares :
    \A v \in {Validate(s, t)} :
      /\ v.valid \in BOOLEAN
      /\ v.valid <=> v.reason = ""
      /\ ~ v.valid => v.reason \in Reasons
      /\ s = t <=> v.reason = MSG_SAME
      /\ ~ v.valid =>
            /\ v.self.board = board
            /\ v.self.green_pieces = green_pieces
            /\ v.self.orange_pieces = orange_pieces
            /\ v.self.current_player = current_player
            /\ v.self.winner = winner
            /\ v.self.eaten_pieces = eaten_pieces

(* game_f before its first move, after a rejected validation of a long move
   of the Green man of (1,6): the search left its start square in the
   visited set.  Every one of the four rejections and an accepted move are
   at hand for the player to move. *)
C13_Witness ==
  /\ turns = 0
  /\ pc = "play"
  /\ memo = {<<1, 6>>}
  /\ Cell(board, <<1, 6>>) = GREEN_PIECE
  /\ Cell(board, <<6, 7>>) = GREEN_PIECE
  /\ \A reason \in Reasons \cup {""} :
        \E s \in Squares, t \in Squares :
          check_valid_piece(Self, s[1], s[2]) /\ Validate(s, t).reason = reason

(***************************************************************************)
(* C14.  A player wins by eliminating all of the opponent's pieces from    *)
(* the board: after every completed move, if no Orange man or king stands  *)
(* on the board the winner is Green, and if no Green man or king stands on *)
(* the board the winner is Orange.                                         *)
(* Fails: check_end reads the counters, and a piece overwritten by a jump  *)
(* that lands on it (C2) leaves the board without leaving its counter.     *)
(***************************************************************************)
C14_WinByElimination ==
  /\ OnBoard(board, OrangeCells) = 0 => winner = PLAYER_GREEN
  /\ OnBoard(board, GreenCells) = 0 => winner = PLAYER_ORANGE

(***************************************************************************)
(* C15.  A player wins by blocking the opponent: whenever the turn loop    *)
(* waits for a move of a player who has a piece on the board but no piece  *)
(* and target square that validate_move accepts, the other player has been *)
(* made the winner, so the loop never waits for a move that cannot exist.  *)
(* Fails: check_end looks at the two counters only; nothing in the turn    *)
(* loop asks whether the player to move has a move.                        *)
(***************************************************************************)
NoLegalMove ==
  \A s \in Squares :
    check_valid_piece(Self, s[1], s[2]) =>
      \A t \in Squares : ~ Validate(s, t).valid

C15_BlockedLoses ==
  (/\ pc = "play"
   /\ OnBoard(board, OwnCells(current_player)) > 0
   /\ NoLegalMove) => winner = Other(current_player)

(***************************************************************************)
(* C16.  Whenever validate_move accepts a move of more than one step, the  *)
(* pending capture list it leaves is the jumped squares of one connected   *)
(* path of jumps from the start to the target: with s0 the start, the i-th *)
(* captured square lies one diagonal step from s(i-1) in a row direction   *)
(* the piece may take, holds an opponent's piece at validation time, and   *)
(* s(i), its mirror image of s(i-1), is on the board; the last s(i) is the *)
(* target, there is at least one jump and no square is captured twice.     *)
(***************************************************************************)
RECURSIVE JumpPath(_, _, _, _)
JumpPath(piece, from, eaten, target) ==
  IF eaten = <<>> THEN from = target
  ELSE LET over == Head(eaten)
           land == <<2 * over[1] - from[1], 2 * over[2] - from[2]>>
       IN  /\ over[1] - from[1] \in RowSteps(piece)
           /\ over[2] - from[2] \in {1, -1}
           /\ land \in Squares
           /\ Cell(board, over) \in OPOSITES[current_player]
           /\ JumpPath(piece, land, Tail(eaten), target)

C16_CapturesFollowOnePath ==
  \A s \in Squares :
    check_valid_piece(Self, s[1], s[2]) =>
      \A t \in Squares :
        ~ OneStep(s, t) =>
          \A v \in {Validate(s, t)} :
            v.valid =>
              /\ Len(v.self.eaten_pieces) >= 1
              /\ JumpPath(Cell(board, s), s, v.self.eaten_pieces, t)
              /\ Cardinality(Range(v.self.eaten_pieces)) =
                    Len(v.self.eaten_pieces)

(* game_a after Green's (3,4) to (4,5): validate_move accepts the Orange
   king's (1,4) to (3,6) with the three squares of the way round the
   diamond, (2,3), (4,3) and (4,5), although one jump leads there too. *)
C16_Witness ==
  /\ turns = 1
  /\ current_player = PLAYER_ORANGE
  /\ Cell(board, <<1, 4>>) = ORANGE_QUEEN
  /\ Validate(<<1, 4>>, <<3, 6>>).valid
  /\ Validate(<<1, 4>>, <<3, 6>>).self.eaten_pieces =
        << <<2, 3>>, <<4, 3>>, <<4, 5>> >>
  /\ Cell(board, <<2, 5>>) = GREEN_PIECE

(***************************************************************************)
(* C17.  The pending capture list never persists across turns: it is empty *)
(* at the start of every pass of the turn loop, hence at every call of     *)
(* validate_move, and the cells an applied move empties are its start cell *)
(* and exactly the squares found by the validation of that same move (none *)
(* for a single step).                                                     *)
(***************************************************************************)
Emptied == {sq \in Squares : Cell(board, sq) # EMPTY /\ Cell(board', sq) = EMPTY}

C17_NoCaptureCarriedOver ==
  /\ [](eaten_pieces = <<>>)
  /\ [][turns' = turns + 1 =>
          \A s \in Squares : AppliedFrom(s) => \A t \in Squares :
            Applied(s, t) =>
              /\ Emptied = {s} \cup Range(Validate(s, t).self.eaten_pieces)
              /\ OneStep(s, t) => Emptied = {s}
     ]_vars

(* game_b: the Orange man jumped from (7,6) over (6,5) to (5,4), and then
   the Green man of (4,5) stepped to (5,6) beside it, taking nothing. *)
C17_Witness ==
  /\ turns = 2
  /\ eaten_pieces = <<>>
  /\ Cell(board, <<6, 5>>) = EMPTY
  /\ Cell(board, <<5, 4>>) = ORANGE_PIECE
  /\ Cell(board, <<4, 5>>) = EMPTY
  /\ Cell(board, <<5, 6>>) = GREEN_PIECE
  /\ green_pieces = 4
  /\ orange_pieces = 1

(***************************************************************************)
(* C18.  The capture search started by validate_move terminates for every  *)
(* board, piece, start and target, also where a king's jumps form a cycle. *)
(* validate_move clears the visited set first, so what the search leaves   *)
(* in it does not depend on earlier searches; every square it holds is the *)
(* start or a square jumps lead to, the search that fails has expanded     *)
(* each of those once, and a call on a square of the visited set returns   *)
(* None at once, changing nothing.  (That the search terminates is that    *)
(* its value exists: the operator is evaluated for every start and target  *)
(* of every reachable state.)                                              *)
(***************************************************************************)
Search(s, t) ==
  check_longer_move([Self EXCEPT !.memo = {}], Cell(board, s),
                    s[1], s[2], t[1], t[2], <<>>)

C18_SearchTerminates ==
  \A s \in Squares :
    check_valid_piece(Self, s[1], s[2]) =>
      \A reach \in {JumpReach(Cell(board, s), s)} :
        \A t \in Squares :
          (t # s /\ ~ OneStep(s, t)
             /\ ~ check_wrong_direction(Self, s[1], s[2], t[1])) =>
            \A r \in {Search(s, t)} :
              /\ r.ret \in {"True", "False", "None"}
              /\ Validate(s, t).self.memo = r.self.memo
              /\ s \in r.self.memo
              /\ r.self.memo \subseteq {s} \cup reach
              /\ r.ret # "True" => r.self.memo = {s} \cup reach
              /\ \A sq \in r.self.memo :
                    check_longer_move(r.self, Cell(board, s), sq[1], sq[2],
                                      t[1], t[2], <<>>)
                      = [ret |-> "None", self |-> r.self]

(* game_a after Green's (3,4) to (4,5): the Orange king of (1,4) stands on
   a corner of a cycle of jumps, (1,4), (3,2), (5,4), (3,6) and back, and a
   search for a target out of its reach has been round all of it. *)
C18_Witness ==
  /\ turns = 1
  /\ current_player = PLAYER_ORANGE
  /\ Cell(board, <<1, 4>>) = ORANGE_QUEEN
  /\ <<1, 4>> \in JumpReach(ORANGE_QUEEN, <<1, 4>>)
  /\ memo = {<<1, 4>>, <<3, 2>>, <<5, 4>>, <<3, 6>>}
  /\ memo = JumpReach(ORANGE_QUEEN, <<1, 4>>)

(***************************************************************************)
(* C19.  check_valid_piece is true exactly for the cells that hold a man   *)
(* or a king of the current player, and every applied move relocates such  *)
(* a piece: exactly one cell that held a piece of the player to move is    *)
(* Empty afterwards, the step is the application of a validated move from  *)
(* that cell, and no opponent's piece appears on a cell it did not hold.   *)
(***************************************************************************)
C19_ValidPieceIsOwnPiece ==
  \A s \in Squares :
    check_valid_piece(Self, s[1], s[2])
      <=> Cell(board, s) \in OwnCells(current_player)

Left ==
  {sq \in Squares : /\ Cell(board, sq) \in OwnCells(current_player)
                    /\ Cell(board', sq) = EMPTY}

C19_OwnPieceMoves ==
  /\ []C19_ValidPieceIsOwnPiece
  /\ [][turns' = turns + 1 =>
          /\ Cardinality(Left) = 1
          /\ \A s \in Left : \E t \in Squares \ {s} : Applied(s, t)
          /\ \A sq \in Squares :
                Cell(board', sq) \in OPOSITES[current_player] =>
                  Cell(board', sq) = Cell(board, sq)
     ]_vars

(* game_d: Green's last man stepped from (0,7) to (1,6), past cells that are
   Empty and cells that hold Orange pieces. *)
C19_Witness ==
  /\ turns = 1
  /\ current_player = PLAYER_ORANGE
  /\ Cell(board, <<0, 7>>) = EMPTY
  /\ Cell(board, <<1, 6>>) = GREEN_PIECE
  /\ green_pieces = 1
  /\ orange_pieces = 3
  /\ OnBoard(board, GreenCells) = 1

(***************************************************************************)
(* C20.  Whenever winner is set it is the current player, the one who made *)
(* the last applied move: an applied move leaves the mover's counter as it *)
(* was and never raises the opponent's, so the winner a move sets is its   *)
(* mover and the turn does not pass afterwards.                            *)
(***************************************************************************)
C20_WinnerIsMover ==
  /\ [](winner # None => winner = current_player)
  /\ [][turns' = turns + 1 =>
          /\ CountAfter(current_player) = CountOf(current_player)
          /\ CountAfter(Other(current_player)) <= CountOf(Other(current_player))
          /\ winner' # None =>
                /\ winner' = current_player
                /\ current_player' = current_player
                /\ CountAfter(Other(current_player)) = 0
     ]_vars

(* Green moved, Orange answered by taking the last Green piece, and the
   game is back at the menu with Orange both winner and current player. *)
C20_Witness ==
  /\ turns = 2
  /\ pc = "menu"
  /\ winner = PLAYER_ORANGE
  /\ current_player = PLAYER_ORANGE
  /\ green_pieces = 0
  /\ orange_pieces > 0

(***************************************************************************)
(* C21.  In every reachable state green_pieces and orange_pieces are       *)
(* integers in 0..12 and not both 0, and within a game (every step but the *)
(* init_game of a new one) neither increases.  A capture never takes a     *)
(* counter below 0: each counter is at least the number of that side's     *)
(* pieces on the board, before a capture and after it, so a counter        *)
(* cannot pass the 0 that check_end tests for.                             *)
(***************************************************************************)
C21_CountsInRange ==
  /\ green_pieces \in 0 .. 12
  /\ orange_pieces \in 0 .. 12
  /\ ~ (green_pieces = 0 /\ orange_pieces = 0)
  /\ green_pieces >= OnBoard(board, GreenCells)
  /\ orange_pieces >= OnBoard(board, OrangeCells)

C21_CountsNeverIncrease ==
  /\ []C21_CountsInRange
  /\ [][~ (pc = "menu" /\ pc' = "play") =>
          /\ green_pieces' <= green_pieces
          /\ orange_pieces' <= orange_pieces
     ]_vars

(* game_b: Orange's last man jumped from (7,6) over (6,5) to (5,4) and
   Green's man of (4,5) took it, bringing orange_pieces from 1 to exactly
   0. *)
C21_Witness ==
  /\ turns = 2
  /\ orange_pieces = 0
  /\ OnBoard(board, OrangeCells) = 0
  /\ green_pieces = 4
  /\ OnBoard(board, GreenCells) = 4
  /\ Cell(board, <<6, 3>>) = GREEN_PIECE
  /\ winner = PLAYER_GREEN

====
